---- MODULE Spec2Model ----
(***************************************************************************)
(* A model of the LAN messenger's core: the wire codec (protocol.py), the  *)
(* presence service (discovery.py) and the transport service (network.py). *)
(*                                                                         *)
(* Threads are modelled one Python statement (one access to shared state)  *)
(* per step, so every interleaving the interpreter can produce between     *)
(* the listen loop, the cleanup loop and stop() is a behaviour.            *)
(*                                                                         *)
(* The JSON text of an envelope is modelled as its sequence of lexical     *)
(* tokens, one unit of length per token: '{' '}' ':' ',' are their ASCII   *)
(* codes, null is NullTok, a string literal is StrBase + its index in      *)
(* StrTable, an integer n is NumBase + n.  A unit in 128..255 is a byte    *)
(* that is not valid UTF-8.                                                *)
(***************************************************************************)
EXTENDS Integers, Sequences, FiniteSets, TLC

(***************************************************************************)
(* protocol.py: constants                                                  *)
(***************************************************************************)
UDP_PORT == 5000
TCP_PORT == 5001
BUFFER_SIZE == 4096
DISCOVERY_INTERVAL == 2
CLEANUP_SLEEP == 5
PREFIX_LEN == 4

MessageType ==
  {"DISCOVERY", "TEXT", "FILE_OFFER", "FILE_ACCEPT", "FILE_REJECT", "FILE_DATA", "FILE_END"}

(***************************************************************************)
(* Bounds of the model                                                     *)
(***************************************************************************)
MaxTime == 7
MaxConns == 2
MaxSends == 2

(***************************************************************************)
(* JSON values (what json.loads returns / json.dumps takes)                *)
(***************************************************************************)
JStr(s) == [k |-> "str", s |-> s, n |-> 0, o |-> <<>>]
JNum(n) == [k |-> "num", s |-> "", n |-> n, o |-> <<>>]
JNull == [k |-> "null", s |-> "", n |-> 0, o |-> <<>>]
\* a dict: the sequence of its <<key, value>> items in insertion order
JObj(items) == [k |-> "obj", s |-> "", n |-> 0, o |-> items]

StrTable ==
  << "type", "sender_name", "sender_ip", "payload",
     "DISCOVERY", "TEXT", "FILE_OFFER", "FILE_ACCEPT", "FILE_REJECT", "FILE_DATA", "FILE_END",
     "text", "filename", "filesize", "data",
     "", "alice", "bob", "10.0.0.5", "10.0.0.6", "6.6.6.6",
     "hi", "bye", "a.txt", "BOGUS", "extra" >>

LBrace == 123
RBrace == 125
Colon == 58
Comma == 44
NullTok == 110
BadUtf8 == 255
StrBase == 1000
NumBase == 2000

StrIndex(s) == CHOOSE i \in 1..Len(StrTable) : StrTable[i] = s
StrTok(s) == StrBase + StrIndex(s)
IsStrTok(t) == t > StrBase /\ t <= StrBase + Len(StrTable)
TokStr(t) == StrTable[t - StrBase]
IsNumTok(t) == t >= NumBase

(***************************************************************************)
(* json.dumps / json.loads on the token text                               *)
(***************************************************************************)
RECURSIVE Dumps(_), DumpItems(_, _)
DumpItems(items, i) ==
  IF i > Len(items) THEN <<>>
  ELSE (IF i > 1 THEN <<Comma>> ELSE <<>>)
       \o <<StrTok(items[i][1]), Colon>> \o Dumps(items[i][2])
       \o DumpItems(items, i + 1)
Dumps(v) ==
  CASE v.k = "str" -> <<StrTok(v.s)>>
    [] v.k = "num" -> <<NumBase + v.n>>
    [] v.k = "null" -> <<NullTok>>
    [] v.k = "obj" -> <<LBrace>> \o DumpItems(v.o, 1) \o <<RBrace>>

\* dict[key] = val: an existing key keeps its place, a new key goes last
DictPut(items, key, val) ==
  IF \E i \in 1..Len(items) : items[i][1] = key
  THEN [i \in 1..Len(items) |-> IF items[i][1] = key THEN <<key, val>> ELSE items[i]]
  ELSE Append(items, <<key, val>>)
DictHas(items, key) == \E i \in 1..Len(items) : items[i][1] = key
DictGet(items, key) == items[CHOOSE i \in 1..Len(items) : items[i][1] = key][2]
DictKeys(items) == {items[i][1] : i \in 1..Len(items)}

ParseFail == [ok |-> FALSE, v |-> JNull, i |-> 0]
RECURSIVE ParseValue(_, _), ParseMembers(_, _, _)
\* the value starting at toks[i]: [ok, v, i] with i the position after it
ParseValue(toks, i) ==
  IF i > Len(toks) THEN ParseFail
  ELSE LET t == toks[i] IN
    CASE IsStrTok(t) -> [ok |-> TRUE, v |-> JStr(TokStr(t)), i |-> i + 1]
      [] IsNumTok(t) -> [ok |-> TRUE, v |-> JNum(t - NumBase), i |-> i + 1]
      [] t = NullTok -> [ok |-> TRUE, v |-> JNull, i |-> i + 1]
      [] t = LBrace ->
           IF i + 1 <= Len(toks) /\ toks[i + 1] = RBrace
           THEN [ok |-> TRUE, v |-> JObj(<<>>), i |-> i + 2]
           ELSE ParseMembers(toks, i + 1, <<>>)
      [] OTHER -> ParseFail
\* key ':' value, then ',' and more members or '}'
ParseMembers(toks, i, acc) ==
  IF i + 1 > Len(toks) \/ ~IsStrTok(toks[i]) \/ toks[i + 1] # Colon THEN ParseFail
  ELSE LET r == ParseValue(toks, i + 2) IN
    IF ~r.ok \/ r.i > Len(toks) THEN ParseFail
    ELSE LET items == DictPut(acc, TokStr(toks[i]), r.v) IN
      CASE toks[r.i] = RBrace -> [ok |-> TRUE, v |-> JObj(items), i |-> r.i + 1]
        [] toks[r.i] = Comma -> ParseMembers(toks, r.i + 1, items)
        [] OTHER -> ParseFail

\* json.loads: one value and nothing after it
Loads(toks) ==
  LET r == ParseValue(toks, 1) IN
  IF r.ok /\ r.i = Len(toks) + 1 THEN r ELSE ParseFail

\* bytes.decode('utf-8') fails on a byte that is no UTF-8
Utf8Ok(data) == \A i \in 1..Len(data) : ~(data[i] >= 128 /\ data[i] <= 255)

(***************************************************************************)
(* protocol.py: Message                                                    *)
(***************************************************************************)
Message(type, sender_name, sender_ip, payload) ==
  [type |-> type, sender_name |-> sender_name, sender_ip |-> sender_ip, payload |-> payload]
MessageFields == {"type", "sender_name", "sender_ip", "payload"}
RequiredFields == {"type", "sender_name", "sender_ip"}

to_json_without_payload(msg) ==
  Dumps(JObj(<< <<"type", JStr(msg.type)>>,
                <<"sender_name", msg.sender_name>>,
                <<"sender_ip", msg.sender_ip>>,
                <<"payload", JNull>> >>))
to_json(msg) ==
  Dumps(JObj(<< <<"type", JStr(msg.type)>>,
                <<"sender_name", msg.sender_name>>,
                <<"sender_ip", msg.sender_ip>>,
                <<"payload", msg.payload>> >>))
to_bytes(msg) == to_json(msg)

DecodeError == [ok |-> FALSE, msg |-> Message("", JNull, JNull, JNull)]
from_json(toks) ==
  LET r == Loads(toks) IN
  IF ~r.ok THEN DecodeError                                  \* json.loads raises
  ELSE IF r.v.k # "obj" THEN DecodeError                     \* data['type']: TypeError
  ELSE IF ~DictHas(r.v.o, "type") THEN DecodeError           \* KeyError
  ELSE LET ty == DictGet(r.v.o, "type") IN
    IF ~(ty.k = "str" /\ ty.s \in MessageType) THEN DecodeError   \* ValueError
    ELSE IF ~(DictKeys(r.v.o) \subseteq MessageFields) THEN DecodeError  \* unexpected keyword
    ELSE IF ~(RequiredFields \subseteq DictKeys(r.v.o)) THEN DecodeError \* missing argument
    ELSE [ok |-> TRUE,
          msg |-> Message(ty.s, DictGet(r.v.o, "sender_name"), DictGet(r.v.o, "sender_ip"),
                          IF DictHas(r.v.o, "payload") THEN DictGet(r.v.o, "payload") ELSE JNull)]
from_bytes(data) == IF Utf8Ok(data) THEN from_json(data) ELSE DecodeError

(***************************************************************************)
(* State                                                                   *)
(***************************************************************************)
VARIABLES
  now,               \* time.time(), in seconds
  udp_holder,        \* who else holds UDP_PORT on this host: "free", "foreign", "presence"
  app,               \* where the consumer is in its use of PeerDiscovery: start(), stop()
  running,           \* PeerDiscovery.running
  broadcast_socket,  \* "none", "open", "closed"
  listen_socket,     \* "none", "open", "bound", "closed"
  peers,             \* PeerDiscovery.peers: dict ip -> last seen, as its items in order
  peer_names,        \* PeerDiscovery.peer_names: dict ip -> name
  bcast,             \* the broadcast thread: [pc, wake, sent]
  lst,               \* the listen thread: [pc, ip, name, time, is_new]
  cln,               \* the cleanup thread: [pc, wake, time, size, idx, to_remove]
  callbacks,         \* the calls of on_peer_discovered / on_peer_lost, in order
  log,               \* the kinds of logger.error calls made by PeerDiscovery
  tcp_holder,        \* who else listens on TCP_PORT on this host: "free", "foreign"
  napp,              \* where the consumer is in its use of NetworkManager: start(), stop()
  n_running,         \* NetworkManager.running
  server_socket,     \* "none", "open", "listening", "closed"
  acc,               \* the accept thread: "none", "loop", "accept", "done"
  backlog,           \* the connections established and not yet accepted, oldest first
  conns,             \* the inbound connections and their handler threads
  sends,             \* the calls of send_message made at a peer towards this node
  messages,          \* the calls of on_message, in order
  nlog,              \* the kinds of logger.error calls made by NetworkManager
  codec              \* a use of the codec on its own: [pc, kind, env, data, r]

dvars == <<now, udp_holder, app, running, broadcast_socket, listen_socket, peers, peer_names,
           bcast, lst, cln, callbacks, log>>
nvars == <<tcp_holder, napp, n_running, server_socket, acc, backlog, conns, sends, messages, nlog>>
cvars == <<codec>>
vars == <<dvars, nvars, cvars>>

\* no use of the codec on its own: pc is "none"; else "env" (an envelope to encode),
\* "bytes" (bytes to decode) or "done"; kind tells how the input was made
NoCodec ==
  [pc |-> "none", kind |-> "", field |-> "", env |-> Message("", JNull, JNull, JNull),
   data |-> <<>>, r |-> DecodeError]

\* the hosts of the broadcast domain whose heartbeats can arrive, and their usernames
IPs == {"10.0.0.5", "10.0.0.6"}
NameOf(ip) == IF ip = "10.0.0.5" THEN "alice" ELSE "bob"
EXPIRY == DISCOVERY_INTERVAL * 3

DictDel(items, key) == SelectSeq(items, LAMBDA it : it[1] # key)

Discovered(ip, name) == [cb |-> "discovered", ip |-> ip, name |-> name]
Lost(ip) == [cb |-> "lost", ip |-> ip, name |-> JNull]

BcastIdle == [pc |-> "none", wake |-> 0, sent |-> <<>>]
LstAt(pc) == [pc |-> pc, ip |-> "", name |-> JNull, time |-> 0, is_new |-> FALSE]
ClnAt(pc) == [pc |-> pc, wake |-> 0, time |-> 0, size |-> 0, idx |-> 0, to_remove |-> <<>>]

\* PeerDiscovery.__init__
DInit ==
  /\ now = 0
  /\ udp_holder \in {"free", "foreign", "presence"}
  /\ app = "new"
  /\ running = FALSE
  /\ broadcast_socket = "none"
  /\ listen_socket = "none"
  /\ peers = <<>>
  /\ peer_names = <<>>
  /\ bcast = BcastIdle
  /\ lst = LstAt("none")
  /\ cln = ClnAt("none")
  /\ callbacks = <<>>
  /\ log = {}

Tick ==
  /\ now < MaxTime
  /\ now' = now + 1
  /\ UNCHANGED <<udp_holder, app, running, broadcast_socket, listen_socket, peers, peer_names,
                 bcast, lst, cln, callbacks, log>>
  /\ UNCHANGED <<nvars, cvars>>

(***************************************************************************)
(* PeerDiscovery.start / stop                                              *)
(***************************************************************************)
\* bind(('', UDP_PORT)) on a socket with SO_REUSEADDR set: the outcomes the host can
\* produce.  A socket without SO_REUSEADDR on the port refuses it; another socket with
\* SO_REUSEADDR (another PeerDiscovery) shares the port on Linux and refuses elsewhere.
BindOutcomes ==
  CASE udp_holder = "free" -> {TRUE}
    [] udp_holder = "foreign" -> {FALSE}
    [] udp_holder = "presence" -> {TRUE, FALSE}

\* lines 21-30: running = True, both sockets created
StartBegin ==
  /\ app = "new"
  /\ running' = TRUE
  /\ broadcast_socket' = "open"
  /\ listen_socket' = "open"
  /\ app' = "bind"
  /\ UNCHANGED <<now, udp_holder, peers, peer_names, bcast, lst, cln, callbacks, log>>
  /\ UNCHANGED <<nvars, cvars>>

\* lines 31-42 without the return of line 36
StartBindNoReturn ==
  /\ app = "bind"
  /\ \E ok \in BindOutcomes :
       /\ listen_socket' = IF ok THEN "bound" ELSE listen_socket
       /\ log' = IF ok THEN log ELSE log \cup {"bind"}
       /\ running' = IF ok THEN running ELSE FALSE
       /\ bcast' = [bcast EXCEPT !.pc = "loop"]
       /\ lst' = LstAt("loop")
       /\ cln' = ClnAt("loop")
  /\ app' = "up"
  /\ UNCHANGED <<now, udp_holder, broadcast_socket, peers, peer_names, callbacks>>
  /\ UNCHANGED <<nvars, cvars>>

\* lines 31-42: bind; on OSError log, running = False, return; else start the threads
StartBind ==
  /\ app = "bind"
  /\ \E ok \in BindOutcomes :
       IF ok
       THEN /\ listen_socket' = "bound"
            /\ bcast' = [bcast EXCEPT !.pc = "loop"]
            /\ lst' = LstAt("loop")
            /\ cln' = ClnAt("loop")
            /\ UNCHANGED <<running, log>>
       ELSE /\ log' = log \cup {"bind"}
            /\ running' = FALSE
            /\ UNCHANGED <<listen_socket, bcast, lst, cln>>
  /\ app' = "up"
  /\ UNCHANGED <<now, udp_holder, broadcast_socket, peers, peer_names, callbacks>>
  /\ UNCHANGED <<nvars, cvars>>

\* line 45
Stop45 ==
  /\ app = "up"
  /\ running' = FALSE
  /\ app' = "stop46"
  /\ UNCHANGED <<now, udp_holder, broadcast_socket, listen_socket, peers, peer_names,
                 bcast, lst, cln, callbacks, log>>
  /\ UNCHANGED <<nvars, cvars>>

\* lines 46-47
Stop47 ==
  /\ app = "stop46"
  /\ broadcast_socket' = IF broadcast_socket = "none" THEN "none" ELSE "closed"
  /\ app' = "stop48"
  /\ UNCHANGED <<now, udp_holder, running, listen_socket, peers, peer_names,
                 bcast, lst, cln, callbacks, log>>
  /\ UNCHANGED <<nvars, cvars>>

\* lines 48-50
Stop49 ==
  /\ app = "stop48"
  /\ listen_socket' = IF listen_socket = "none" THEN "none" ELSE "closed"
  /\ app' = "stopped"
  /\ UNCHANGED <<now, udp_holder, running, broadcast_socket, peers, peer_names,
                 bcast, lst, cln, callbacks, log>>
  /\ UNCHANGED <<nvars, cvars>>

(***************************************************************************)
(* PeerDiscovery._broadcast_loop                                           *)
(***************************************************************************)
Heartbeat(name, sender_ip) == Message("DISCOVERY", JStr(name), JStr(sender_ip), JObj(<<>>))
Username == "alice"

\* line 53
BLoop ==
  /\ bcast.pc = "loop"
  /\ bcast' = [bcast EXCEPT !.pc = IF running THEN "send" ELSE "done"]
  /\ UNCHANGED <<now, udp_holder, app, running, broadcast_socket, listen_socket, peers,
                 peer_names, lst, cln, callbacks, log>>
  /\ UNCHANGED <<nvars, cvars>>

\* lines 54-65: build and send the heartbeat (an error is logged), then sleep
BSend ==
  /\ bcast.pc = "send"
  /\ IF broadcast_socket = "open"
     THEN /\ bcast' = [pc |-> "sleep", wake |-> now + DISCOVERY_INTERVAL,
                       sent |-> to_bytes(Heartbeat(Username, ""))]
          /\ log' = log
     ELSE /\ bcast' = [bcast EXCEPT !.pc = "sleep", !.wake = now + DISCOVERY_INTERVAL]
          /\ log' = log \cup {"broadcast"}
  /\ UNCHANGED <<now, udp_holder, app, running, broadcast_socket, listen_socket, peers,
                 peer_names, lst, cln, callbacks>>
  /\ UNCHANGED <<nvars, cvars>>

\* time.sleep(DISCOVERY_INTERVAL) returns
BWake ==
  /\ bcast.pc = "sleep"
  /\ now >= bcast.wake
  /\ bcast' = [bcast EXCEPT !.pc = "loop", !.wake = 0]
  /\ UNCHANGED <<now, udp_holder, app, running, broadcast_socket, listen_socket, peers,
                 peer_names, lst, cln, callbacks, log>>
  /\ UNCHANGED <<nvars, cvars>>

(***************************************************************************)
(* PeerDiscovery._listen_loop / _handle_discovery                          *)
(***************************************************************************)
\* what recvfrom can return: the UDP source address and the datagram
\* a heartbeat leaves sender_ip empty (line 58); a forged one names another address
DatagramBodies(ip) ==
  {to_bytes(Heartbeat(NameOf(ip), sip)) : sip \in {"", "6.6.6.6"}}
  \cup {to_bytes(Message("TEXT", JStr(NameOf(ip)), JStr(""), JObj(<< <<"text", JStr("hi")>> >>)))}
  \cup {<<>>, <<BadUtf8>>, SubSeq(to_bytes(Heartbeat(NameOf(ip), "")), 1, 5)}
Datagrams(ips) == UNION {[src : {ip}, data : DatagramBodies(ip)] : ip \in ips}

\* line 68, and the call of recvfrom (line 70), which raises OSError on a closed socket
LLoop ==
  /\ lst.pc = "loop"
  /\ lst' = LstAt(IF running /\ listen_socket = "bound" THEN "recv" ELSE "done")
  /\ UNCHANGED <<now, udp_holder, app, running, broadcast_socket, listen_socket, peers,
                 peer_names, bcast, cln, callbacks, log>>
  /\ UNCHANGED <<nvars, cvars>>

\* the thread is blocked in recvfrom and the socket gets closed under it: the hosts
\* that wake the call make it raise OSError (line 83); Linux leaves it blocked
LUnblock ==
  /\ lst.pc = "recv"
  /\ listen_socket = "closed"
  /\ lst' = LstAt("done")
  /\ UNCHANGED <<now, udp_holder, app, running, broadcast_socket, listen_socket, peers,
                 peer_names, bcast, cln, callbacks, log>>
  /\ UNCHANGED <<nvars, cvars>>

\* lines 70-81 with a break in the handler of line 80
LRecvBreaks(ips) ==
  /\ lst.pc = "recv"
  /\ \E dg \in Datagrams(ips) :
       LET r == from_bytes(dg.data) IN
       IF ~r.ok
       THEN /\ log' = log \cup {"parse"}
            /\ lst' = LstAt("done")
       ELSE /\ log' = log
            /\ IF r.msg.type = "DISCOVERY"
               THEN lst' = [pc |-> "h96", ip |-> dg.src, name |-> r.msg.sender_name,
                            time |-> now, is_new |-> FALSE]
               ELSE lst' = LstAt("loop")
  /\ UNCHANGED <<now, udp_holder, app, running, broadcast_socket, listen_socket, peers,
                 peer_names, bcast, cln, callbacks>>
  /\ UNCHANGED <<nvars, cvars>>

\* lines 70-81 and 95: a datagram arrives; it is decoded and, if it is a DISCOVERY,
\* _handle_discovery is entered and reads the clock
LRecv(ips) ==
  /\ lst.pc = "recv"
  /\ \E dg \in Datagrams(ips) :
       LET r == from_bytes(dg.data) IN
       IF ~r.ok
       THEN /\ log' = log \cup {"parse"}
            /\ lst' = LstAt("loop")
       ELSE /\ log' = log
            /\ IF r.msg.type = "DISCOVERY"
               THEN lst' = [pc |-> "h96", ip |-> dg.src, name |-> r.msg.sender_name,
                            time |-> now, is_new |-> FALSE]
               ELSE lst' = LstAt("loop")
  /\ UNCHANGED <<now, udp_holder, app, running, broadcast_socket, listen_socket, peers,
                 peer_names, bcast, cln, callbacks>>
  /\ UNCHANGED <<nvars, cvars>>

\* line 96: is_new = ip not in self.peers
IsNewAlways(table, ip) == TRUE
IsNew(table, ip) == ~DictHas(table, ip)
H96 ==
  /\ lst.pc = "h96"
  /\ lst' = [lst EXCEPT !.pc = "h98", !.is_new = IsNew(peers, lst.ip)]
  /\ UNCHANGED <<now, udp_holder, app, running, broadcast_socket, listen_socket, peers,
                 peer_names, bcast, cln, callbacks, log>>
  /\ UNCHANGED <<nvars, cvars>>

\* line 98: self.peers[ip] = current_time
H98 ==
  /\ lst.pc = "h98"
  /\ peers' = DictPut(peers, lst.ip, lst.time)
  /\ lst' = [lst EXCEPT !.pc = "h99"]
  /\ UNCHANGED <<now, udp_holder, app, running, broadcast_socket, listen_socket,
                 peer_names, bcast, cln, callbacks, log>>
  /\ UNCHANGED <<nvars, cvars>>

\* line 99: self.peer_names[ip] = name; line 101: if is_new
H99 ==
  /\ lst.pc = "h99"
  /\ peer_names' = DictPut(peer_names, lst.ip, lst.name)
  /\ lst' = IF lst.is_new THEN [lst EXCEPT !.pc = "h102"] ELSE LstAt("loop")
  /\ UNCHANGED <<now, udp_holder, app, running, broadcast_socket, listen_socket,
                 peers, bcast, cln, callbacks, log>>
  /\ UNCHANGED <<nvars, cvars>>

\* line 102: self.on_peer_discovered(ip, name)
H102 ==
  /\ lst.pc = "h102"
  /\ callbacks' = Append(callbacks, Discovered(lst.ip, lst.name))
  /\ lst' = LstAt("loop")
  /\ UNCHANGED <<now, udp_holder, app, running, broadcast_socket, listen_socket, peers,
                 peer_names, bcast, cln, log>>
  /\ UNCHANGED <<nvars, cvars>>

(***************************************************************************)
(* PeerDiscovery._cleanup_loop                                             *)
(***************************************************************************)
\* line 105, and the start of time.sleep(5)
CLoop ==
  /\ cln.pc = "loop"
  /\ cln' = IF running THEN [ClnAt("sleep") EXCEPT !.wake = now + CLEANUP_SLEEP]
            ELSE ClnAt("done")
  /\ UNCHANGED <<now, udp_holder, app, running, broadcast_socket, listen_socket, peers,
                 peer_names, bcast, lst, callbacks, log>>
  /\ UNCHANGED <<nvars, cvars>>

\* lines 106-109: sleep returns, the clock is read, the iteration over peers.items()
\* starts (the iterator remembers the size of the dict)
CWake ==
  /\ cln.pc = "sleep"
  /\ now >= cln.wake
  /\ cln' = [pc |-> "scan", wake |-> 0, time |-> now, size |-> Len(peers), idx |-> 1,
             to_remove |-> <<>>]
  /\ UNCHANGED <<now, udp_holder, app, running, broadcast_socket, listen_socket, peers,
                 peer_names, bcast, lst, callbacks, log>>
  /\ UNCHANGED <<nvars, cvars>>

\* line 110: current_time - last_seen > (DISCOVERY_INTERVAL * 3)
StaleNever(current_time, last_seen) == FALSE
Stale(current_time, last_seen) == current_time - last_seen > EXPIRY

\* lines 109-111: one step of the iteration.  The iterator raises RuntimeError when the
\* dict changed size since the iteration began; nothing catches it and the thread ends.
CScan ==
  /\ cln.pc = "scan"
  /\ IF Len(peers) # cln.size
     THEN cln' = ClnAt("dead")
     ELSE IF cln.idx > Len(peers)
     THEN cln' = IF Len(cln.to_remove) > 0
                 THEN [cln EXCEPT !.pc = "del", !.idx = 1, !.size = 0]
                 ELSE ClnAt("loop")
     ELSE cln' = [cln EXCEPT !.idx = cln.idx + 1,
                             !.to_remove =
                               IF Stale(cln.time, peers[cln.idx][2])
                               THEN Append(cln.to_remove, peers[cln.idx][1])
                               ELSE cln.to_remove]
  /\ UNCHANGED <<now, udp_holder, app, running, broadcast_socket, listen_socket, peers,
                 peer_names, bcast, lst, callbacks, log>>
  /\ UNCHANGED <<nvars, cvars>>

\* line 114: del self.peers[ip] (KeyError, uncaught, when the key is gone)
CDel ==
  /\ cln.pc = "del"
  /\ LET ip == cln.to_remove[cln.idx] IN
       IF DictHas(peers, ip)
       THEN /\ peers' = DictDel(peers, ip)
            /\ cln' = [cln EXCEPT !.pc = "delname"]
       ELSE /\ peers' = peers
            /\ cln' = ClnAt("dead")
  /\ UNCHANGED <<now, udp_holder, app, running, broadcast_socket, listen_socket,
                 peer_names, bcast, lst, callbacks, log>>
  /\ UNCHANGED <<nvars, cvars>>

\* lines 115-116: if ip in self.peer_names: del self.peer_names[ip]
CDelName ==
  /\ cln.pc = "delname"
  /\ peer_names' = DictDel(peer_names, cln.to_remove[cln.idx])
  /\ cln' = [cln EXCEPT !.pc = "lost"]
  /\ UNCHANGED <<now, udp_holder, app, running, broadcast_socket, listen_socket,
                 peers, bcast, lst, callbacks, log>>
  /\ UNCHANGED <<nvars, cvars>>

\* line 117: self.on_peer_lost(ip), then the next ip of to_remove or back to line 105
CLost ==
  /\ cln.pc = "lost"
  /\ callbacks' = Append(callbacks, Lost(cln.to_remove[cln.idx]))
  /\ cln' = IF cln.idx < Len(cln.to_remove)
            THEN [cln EXCEPT !.pc = "del", !.idx = cln.idx + 1]
            ELSE ClnAt("loop")
  /\ UNCHANGED <<now, udp_holder, app, running, broadcast_socket, listen_socket, peers,
                 peer_names, bcast, lst, log>>
  /\ UNCHANGED <<nvars, cvars>>


(***************************************************************************)
(* NetworkManager: state                                                   *)
(***************************************************************************)
MyIP == "10.0.0.9"
Conns == 1..MaxConns
Sends == 1..MaxSends

\* a connection of the listening socket: state is "unused", "queued" (established, in
\* the backlog), "open" (accepted, its handler runs) or "closed" (the handler closed it);
\* stream are the bytes the peer wrote that no recv returned yet; fin is "open" while
\* the peer may write more, "close" once it closed, "reset" once it reset; h, msg_len,
\* data are the handler's position and locals; err is the exception its handler logged
\* (line 79): "" for none, "io" from recv, "decode" from Message.from_bytes, "filedata"
\* from _handle_file_data, "dispatch" from on_message; wrote are all the bytes the peer
\* wrote on it
NoConn ==
  [state |-> "unused", peer |-> "", stream |-> <<>>, fin |-> "open",
   h |-> "none", msg_len |-> 0, data |-> <<>>, err |-> "", wrote |-> <<>>]
\* a call of send_message: pc is "idle", "connect", "write", "close", "returned", "raised";
\* heard: the target was listening when connect was called; failed: connect or sendall
\* raised
NoSend == [pc |-> "idle", target |-> "", conn |-> 0, heard |-> FALSE, failed |-> FALSE]

\* NetworkManager.__init__
NInit ==
  /\ tcp_holder \in {"free", "foreign"}
  /\ napp = "new"
  /\ n_running = FALSE
  /\ server_socket = "none"
  /\ acc = "none"
  /\ backlog = <<>>
  /\ conns = [c \in Conns |-> NoConn]
  /\ sends = [i \in Sends |-> NoSend]
  /\ messages = <<>>
  /\ nlog = {}

(***************************************************************************)
(* NetworkManager.start / stop / _accept_loop                              *)
(***************************************************************************)
\* lines 20-22: running = True, the socket is created
NStartBegin ==
  /\ napp = "new"
  /\ n_running' = TRUE
  /\ server_socket' = "open"
  /\ napp' = "bind"
  /\ UNCHANGED <<tcp_holder, acc, backlog, conns, sends, messages, nlog>>
  /\ UNCHANGED <<dvars, cvars>>

\* lines 23-30: bind, listen and start the accept thread; on OSError log, running = False
NStartBind ==
  /\ napp = "bind"
  /\ IF tcp_holder = "free"
     THEN /\ server_socket' = "listening"
          /\ acc' = "loop"
          /\ UNCHANGED <<n_running, nlog>>
     ELSE /\ nlog' = nlog \cup {"bind"}
          /\ n_running' = FALSE
          /\ UNCHANGED <<server_socket, acc>>
  /\ napp' = "up"
  /\ UNCHANGED <<tcp_holder, backlog, conns, sends, messages>>
  /\ UNCHANGED <<dvars, cvars>>

\* line 33
NStop33 ==
  /\ napp = "up"
  /\ n_running' = FALSE
  /\ napp' = "stop34"
  /\ UNCHANGED <<tcp_holder, server_socket, acc, backlog, conns, sends, messages, nlog>>
  /\ UNCHANGED <<dvars, cvars>>

\* lines 34-36
NStop35 ==
  /\ napp = "stop34"
  /\ server_socket' = IF server_socket = "none" THEN "none" ELSE "closed"
  /\ napp' = "stopped"
  /\ UNCHANGED <<tcp_holder, n_running, acc, backlog, conns, sends, messages, nlog>>
  /\ UNCHANGED <<dvars, cvars>>

\* line 39, and the call of accept (line 41), which raises OSError on a closed socket
AccLoop ==
  /\ acc = "loop"
  /\ acc' = IF n_running /\ server_socket = "listening" THEN "accept" ELSE "done"
  /\ UNCHANGED <<tcp_holder, napp, n_running, server_socket, backlog, conns, sends, messages, nlog>>
  /\ UNCHANGED <<dvars, cvars>>

\* the thread is blocked in accept and the socket gets closed under it: the hosts
\* that wake the call make it raise OSError (line 43); Linux leaves it blocked
AccUnblock ==
  /\ acc = "accept"
  /\ server_socket = "closed"
  /\ acc' = "done"
  /\ UNCHANGED <<tcp_holder, napp, n_running, server_socket, backlog, conns, sends, messages, nlog>>
  /\ UNCHANGED <<dvars, cvars>>

\* lines 41-42: accept returns the oldest connection; its handler thread is started
Accept ==
  /\ acc = "accept"
  /\ Len(backlog) > 0
  /\ conns' = [conns EXCEPT ![Head(backlog)].state = "open", ![Head(backlog)].h = "loop"]
  /\ backlog' = Tail(backlog)
  /\ acc' = "loop"
  /\ UNCHANGED <<tcp_holder, napp, n_running, server_socket, sends, messages, nlog>>
  /\ UNCHANGED <<dvars, cvars>>

\* a connect to TCP_PORT is answered while the socket listens; a closed socket that a
\* blocked accept still holds goes on answering on Linux
Listening ==
  \/ server_socket = "listening"
  \/ server_socket = "closed" /\ acc = "accept"
ConnectOutcomes ==
  IF server_socket = "listening" THEN {TRUE}
  ELSE IF Listening THEN {TRUE, FALSE}
  ELSE {FALSE}
FreeConn == IF \E c \in Conns : conns[c].state = "unused"
            THEN CHOOSE c \in Conns : conns[c].state = "unused" /\ \A d \in 1..(c - 1) : conns[d].state # "unused"
            ELSE 0

(***************************************************************************)
(* The peers of the listening socket                                       *)
(***************************************************************************)
RECURSIVE ToBytesBE(_, _)
\* n.to_bytes(k, byteorder='big')
ToBytesBE(n, k) == IF k = 0 THEN <<>> ELSE Append(ToBytesBE(n \div 256, k - 1), n % 256)
RECURSIVE FromBytesBE(_)
\* int.from_bytes(b, byteorder='big')
FromBytesBE(b) ==
  IF Len(b) = 0 THEN 0 ELSE FromBytesBE(SubSeq(b, 1, Len(b) - 1)) * 256 + b[Len(b)]

\* lines 122-125 of _send_to_peer: the length prefix, then the encoded envelope
FrameTwice(msg) ==
  ToBytesBE(Len(to_bytes(msg)), PREFIX_LEN) \o to_bytes(msg)
  \o ToBytesBE(Len(to_bytes(msg)), PREFIX_LEN) \o to_bytes(msg)
Frame(msg) == ToBytesBE(Len(to_bytes(msg)), PREFIX_LEN) \o to_bytes(msg)

Text(name, sender_ip, text) ==
  Message("TEXT", JStr(name), JStr(sender_ip), JObj(<< <<"text", JStr(text)>> >>))
FileData(items) == Message("FILE_DATA", JStr("bob"), JStr(""), JObj(items))

\* what a peer may write on a connection before it closes or resets it
PeerScripts ==
  { [peer |-> "10.0.0.5", fin |-> "close",
     stream |-> Frame(Text("alice", "6.6.6.6", "hi")) \o Frame(Text("alice", "", "bye"))],
    [peer |-> "10.0.0.6", fin |-> "reset",
     stream |-> Frame(Text("bob", "", "hi"))],
    [peer |-> "10.0.0.6", fin |-> "close",
     stream |-> SubSeq(Frame(Text("bob", "", "hi")), 1, 9)],
    [peer |-> "10.0.0.6", fin |-> "close",
     stream |-> ToBytesBE(2, PREFIX_LEN) \o <<LBrace, Colon>>],
    [peer |-> "10.0.0.5", fin |-> "close",
     stream |-> Frame(FileData(<< <<"filename", JStr("a.txt")>>, <<"data", JStr("hi")>> >>))
                \o Frame(Text("bob", "", "hi"))],
    [peer |-> "10.0.0.5", fin |-> "close",
     stream |-> Frame(FileData(<< <<"filename", JStr("a.txt")>> >>))
                \o Frame(Text("bob", "", "hi"))] }

\* a peer connects and writes
PeerConnect(scripts) ==
  /\ FreeConn # 0
  /\ TRUE \in ConnectOutcomes
  /\ \E sc \in scripts :
       conns' = [conns EXCEPT ![FreeConn] =
                   [NoConn EXCEPT !.state = "queued", !.peer = sc.peer,
                                  !.stream = sc.stream, !.fin = sc.fin,
                                  !.wrote = sc.stream]]
  /\ backlog' = Append(backlog, FreeConn)
  /\ UNCHANGED <<tcp_holder, napp, n_running, server_socket, acc, sends, messages, nlog>>
  /\ UNCHANGED <<dvars, cvars>>

(***************************************************************************)
(* NetworkManager._handle_client                                           *)
(***************************************************************************)
Min(a, b) == IF a < b THEN a ELSE b

\* lines 78-81: the exception is logged (except) and the socket closed (finally)
Failed(conn, e) == [conn EXCEPT !.state = "closed", !.h = "done", !.msg_len = 0,
                                !.data = <<>>, !.stream = <<>>, !.err = e]
\* lines 78-81 in the handler of connection c, conn being its state when e is raised
HandlerFailsAll(cs, c, conn, e) ==
  [d \in Conns |-> IF d = c THEN Failed(conn, e)
                   ELSE IF cs[d].state = "open" THEN Failed(cs[d], e) ELSE cs[d]]
HandlerFails(cs, c, conn, e) == [cs EXCEPT ![c] = Failed(conn, e)]
\* a break out of the loop: the socket is closed (finally)
Ended(conn) == [conn EXCEPT !.state = "closed", !.h = "done", !.msg_len = 0, !.data = <<>>,
                            !.stream = <<>>]
\* back to line 51
Again(conn) == [conn EXCEPT !.h = "loop", !.msg_len = 0, !.data = <<>>]

\* lines 86-87 of _handle_file_data: msg.payload.get('filename'),
\* msg.payload.get('data').encode('latin1') raise unless payload is a dict with a string
\* under 'data'
FileDataOk(msg) ==
  /\ msg.payload.k = "obj"
  /\ DictHas(msg.payload.o, "data")
  /\ DictGet(msg.payload.o, "data").k = "str"

\* line 71: msg.sender_ip = ip
SenderIpKept(msg, ip) == msg
WithSenderIp(msg, ip) == [msg EXCEPT !.sender_ip = JStr(ip)]
\* line 73: the types that go to _handle_file_data and not to on_message
ToFileDataOrEnd(msg) == msg.type \in {"FILE_DATA", "FILE_END"}
ToFileData(msg) == msg.type = "FILE_DATA"

\* lines 67-76 for the connection c, whose body is complete and whose stream is rest:
\* decode, set sender_ip, dispatch
Complete(c, rest, body) ==
  LET r == from_bytes(body)
      conn == [conns[c] EXCEPT !.stream = rest]
      msg == WithSenderIp(r.msg, conn.peer)
  IN
  IF ~r.ok
  THEN /\ conns' = HandlerFails(conns, c, conn, "decode")
       /\ messages' = messages
  ELSE IF ToFileData(msg)
  THEN /\ conns' = IF FileDataOk(msg) THEN [conns EXCEPT ![c] = Again(conn)]
                   ELSE HandlerFails(conns, c, conn, "filedata")
       /\ messages' = messages
  ELSE /\ messages' = Append(messages, [conn |-> c, msg |-> msg])
       /\ \E raises \in BOOLEAN :
            conns' = IF raises THEN HandlerFails(conns, c, conn, "dispatch")
                     ELSE [conns EXCEPT ![c] = Again(conn)]

\* line 51: while self.running, and the call of recv(4)
HLoop(c) ==
  /\ conns[c].h = "loop"
  /\ conns' = [conns EXCEPT ![c] = IF n_running THEN [conns[c] EXCEPT !.h = "rlen"]
                                   ELSE Ended(conns[c])]
  /\ UNCHANGED <<tcp_holder, napp, n_running, server_socket, acc, backlog, sends, messages, nlog>>
  /\ UNCHANGED <<dvars, cvars>>

\* what recv(n) can return when the stream holds bytes: any non-empty start of it of at
\* most n bytes
RecvSizes(stream, n) == 1..Min(n, Len(stream))

\* lines 53-57: length_bytes = sock.recv(4); b'' ends the loop; msg_len from the bytes
\* received.  With msg_len = 0 the body loop is skipped and lines 67-76 follow.
HRecvLen(c) ==
  /\ conns[c].h = "rlen"
  /\ IF Len(conns[c].stream) = 0
     THEN /\ conns[c].fin # "open"
          /\ conns' = IF conns[c].fin = "close" THEN [conns EXCEPT ![c] = Ended(conns[c])]
                      ELSE HandlerFails(conns, c, conns[c], "io")
          /\ messages' = messages
     ELSE \E k \in RecvSizes(conns[c].stream, PREFIX_LEN) :
            LET length_bytes == SubSeq(conns[c].stream, 1, k)
                rest == SubSeq(conns[c].stream, k + 1, Len(conns[c].stream))
                msg_len == FromBytesBE(length_bytes)
            IN IF msg_len = 0
               THEN Complete(c, rest, <<>>)
               ELSE /\ conns' = [conns EXCEPT ![c].stream = rest, ![c].h = "rbody",
                                              ![c].msg_len = msg_len, ![c].data = <<>>]
                    /\ messages' = messages
  /\ UNCHANGED <<tcp_holder, napp, n_running, server_socket, acc, backlog, sends, nlog>>
  /\ UNCHANGED <<dvars, cvars>>

\* lines 60-68: chunk = sock.recv(min(msg_len - len(data), BUFFER_SIZE)); b'' ends the
\* body loop and, the body being short, the outer loop; a full body goes to lines 67-76
HRecvBody(c) ==
  /\ conns[c].h = "rbody"
  /\ IF Len(conns[c].stream) = 0
     THEN /\ conns[c].fin # "open"
          /\ conns' = IF conns[c].fin = "close" THEN [conns EXCEPT ![c] = Ended(conns[c])]
                      ELSE HandlerFails(conns, c, conns[c], "io")
          /\ messages' = messages
     ELSE \E k \in RecvSizes(conns[c].stream,
                             Min(conns[c].msg_len - Len(conns[c].data), BUFFER_SIZE)) :
            LET data == conns[c].data \o SubSeq(conns[c].stream, 1, k)
                rest == SubSeq(conns[c].stream, k + 1, Len(conns[c].stream))
            IN IF Len(data) = conns[c].msg_len
               THEN Complete(c, rest, data)
               ELSE /\ conns' = [conns EXCEPT ![c].stream = rest, ![c].data = data]
                    /\ messages' = messages
  /\ UNCHANGED <<tcp_holder, napp, n_running, server_socket, acc, backlog, sends, nlog>>
  /\ UNCHANGED <<dvars, cvars>>

(***************************************************************************)
(* NetworkManager.send_message / _send_to_peer, called at a peer           *)
(***************************************************************************)
PeerIP == "10.0.0.6"
PeerName == "bob"
SendText(i) == IF i = 1 THEN "hi" ELSE "bye"
Targets == {MyIP, "10.0.0.5"}

\* lines 127-129: the exception of connect or sendall is logged and raised again
SendFailsQuietly(snd) == [snd EXCEPT !.pc = "returned", !.failed = TRUE]
SendFails(snd) == [snd EXCEPT !.pc = "raised", !.failed = TRUE]

\* lines 98-104 and 119: the envelope is built and the socket created
SendBegin(i) ==
  /\ sends[i].pc = "idle"
  /\ \E t \in Targets : sends' = [sends EXCEPT ![i] = [NoSend EXCEPT !.pc = "connect", !.target = t]]
  /\ UNCHANGED <<tcp_holder, napp, n_running, server_socket, acc, backlog, conns, messages, nlog>>
  /\ UNCHANGED <<dvars, cvars>>

\* line 120: sock.connect((ip, TCP_PORT)); lines 127-129 on an error: log and raise
SendConnect(i) ==
  /\ sends[i].pc = "connect"
  /\ \E ok \in (IF sends[i].target = MyIP /\ FreeConn # 0 THEN ConnectOutcomes ELSE {FALSE}) :
       IF ok
       THEN /\ conns' = [conns EXCEPT ![FreeConn] =
                           [NoConn EXCEPT !.state = "queued", !.peer = PeerIP]]
            /\ backlog' = Append(backlog, FreeConn)
            /\ sends' = [sends EXCEPT ![i].pc = "write", ![i].conn = FreeConn,
                                      ![i].heard = TRUE]
            /\ nlog' = nlog
       ELSE /\ sends' = [sends EXCEPT ![i] = SendFails([sends[i] EXCEPT !.heard =
                                               sends[i].target = MyIP /\ server_socket = "listening"])]
            /\ nlog' = nlog \cup {"send"}
            /\ UNCHANGED <<conns, backlog>>
  /\ UNCHANGED <<tcp_holder, napp, n_running, server_socket, acc, messages>>
  /\ UNCHANGED <<dvars, cvars>>

\* lines 122-125: sock.sendall(length_bytes + data); a connection the other side has
\* closed may take the bytes or refuse them
SendWrite(i) ==
  /\ sends[i].pc = "write"
  /\ LET c == sends[i].conn IN
     \E ok \in (IF conns[c].state = "closed" THEN {TRUE, FALSE} ELSE {TRUE}) :
       IF ok
       THEN /\ conns' = [conns EXCEPT ![c].stream =
                           IF conns[c].state = "closed" THEN <<>>
                           ELSE conns[c].stream \o Frame(Text(PeerName, "", SendText(i))),
                                      ![c].wrote =
                                        conns[c].wrote \o Frame(Text(PeerName, "", SendText(i)))]
            /\ sends' = [sends EXCEPT ![i].pc = "close"]
            /\ nlog' = nlog
       ELSE /\ sends' = [sends EXCEPT ![i] = SendFails(sends[i])]
            /\ nlog' = nlog \cup {"send"}
            /\ conns' = conns
  /\ UNCHANGED <<tcp_holder, napp, n_running, server_socket, acc, backlog, messages>>
  /\ UNCHANGED <<dvars, cvars>>

\* line 126: sock.close(), and the return
SendClose(i) ==
  /\ sends[i].pc = "close"
  /\ conns' = [conns EXCEPT ![sends[i].conn].fin = "close"]
  /\ sends' = [sends EXCEPT ![i].pc = "returned"]
  /\ UNCHANGED <<tcp_holder, napp, n_running, server_socket, acc, backlog, messages, nlog>>
  /\ UNCHANGED <<dvars, cvars>>

\* the first connection the listening socket gets
FirstConnect(scripts) ==
  /\ \A c \in Conns : conns[c].state = "unused"
  /\ PeerConnect(scripts)

\* the transport service and the peers that connect to it
NetNext ==
  \/ NStartBegin \/ NStartBind
  \/ AccLoop \/ Accept
  \/ PeerConnect(PeerScripts)
  \/ \E c \in Conns : HLoop(c) \/ HRecvLen(c) \/ HRecvBody(c)

NetInit == DInit /\ udp_holder = "free" /\ NInit /\ codec = NoCodec
NetSpec == NetInit /\ [][NetNext]_vars

\* the transport service from start() to stop() and the calls of send_message made
\* towards it
SendNext ==
  \/ NStartBegin \/ NStartBind \/ NStop33 \/ NStop35
  \/ AccLoop \/ AccUnblock \/ Accept
  \/ \E c \in Conns : HLoop(c) \/ HRecvLen(c) \/ HRecvBody(c)
  \/ \E i \in Sends : SendBegin(i) \/ SendConnect(i) \/ SendWrite(i) \/ SendClose(i)

SendSpec == NetInit /\ [][SendNext]_vars

Start == StartBegin \/ StartBind
Stop == Stop45 \/ Stop47 \/ Stop49
Broadcast == BLoop \/ BSend \/ BWake
Listen == LLoop \/ LUnblock \/ LRecv(IPs) \/ H96 \/ H98 \/ H99 \/ H102
Cleanup == CLoop \/ CWake \/ CScan \/ CDel \/ CDelName \/ CLost

\* the peer table under the listen and the cleanup thread of a started service
Next ==
  \/ Tick
  \/ StartBegin \/ StartBind
  \/ LLoop \/ LRecv(IPs) \/ H96 \/ H98 \/ H99 \/ H102
  \/ CLoop \/ CWake \/ CScan \/ CDel \/ CDelName \/ CLost

Init ==
  DInit /\ udp_holder \in {"free", "foreign"} /\ NInit /\ tcp_holder = "free" /\ codec = NoCodec
Spec == Init /\ [][Next]_vars

\* the same, the handling of a heartbeat and a cleanup scan never overlapping
ListenBusy == lst.pc \in {"h96", "h98", "h99", "h102"}
CleanupBusy == cln.pc \in {"scan", "del", "delname", "lost"}
SeqLRecv == ~CleanupBusy /\ LRecv(IPs)
SeqCWake == ~ListenBusy /\ CWake
SeqNext ==
  \/ Tick
  \/ StartBegin \/ StartBind
  \/ LLoop \/ SeqLRecv \/ H96 \/ H98 \/ H99 \/ H102
  \/ CLoop \/ SeqCWake \/ CScan \/ CDel \/ CDelName \/ CLost
SeqSpec == Init /\ [][SeqNext]_vars

(***************************************************************************)
(* What the consumer saw                                                   *)
(***************************************************************************)
CallbacksOf(ip) == SelectSeq(callbacks, LAMBDA e : e.ip = ip)
Alternates(seq) ==
  \A i \in 1..Len(seq) : seq[i].cb = IF i % 2 = 1 THEN "discovered" ELSE "lost"
Believed(ip) ==
  LET seq == CallbacksOf(ip) IN Len(seq) > 0 /\ seq[Len(seq)].cb = "discovered"

(***************************************************************************)
(* C1: without overlap of heartbeat handling and cleanup scans, the        *)
(* callbacks of every IP are discovered, lost, discovered, ... with the    *)
(* right name (a heartbeat from a known IP only stores the time read and   *)
(* calls nothing); between handlers the table holds exactly the IPs whose  *)
(* last callback is discovered; and a finished scan leaves no peer whose   *)
(* last-seen time is more than 3 x DISCOVERY_INTERVAL before the scan.     *)
(***************************************************************************)
C1_Episodes ==
  \A ip \in IPs :
    /\ Alternates(CallbacksOf(ip))
    /\ \A i \in 1..Len(callbacks) :
         callbacks[i].cb = "discovered" => callbacks[i].name = JStr(NameOf(callbacks[i].ip))
    /\ (~ListenBusy /\ ~CleanupBusy) => (DictHas(peers, ip) <=> Believed(ip))
C1_Refresh ==
  (lst.pc = "h98" /\ lst'.pc = "h99") =>
     /\ DictHas(peers', lst.ip)
     /\ DictGet(peers', lst.ip) = lst.time
     /\ callbacks' = callbacks
C1_Expiry ==
  (CleanupBusy /\ cln'.pc = "loop") =>
     \A i \in 1..Len(peers') : ~(cln.time - peers'[i][2] > EXPIRY)
C1_Lifecycle == [](C1_Episodes) /\ [][C1_Refresh /\ C1_Expiry]_vars
\* a peer was discovered, expired at the scan 7 s later, and was discovered again
C1_Witness ==
  /\ Len(CallbacksOf("10.0.0.5")) = 3
  /\ ~ListenBusy /\ ~CleanupBusy
  /\ DictHas(peers, "10.0.0.5")

(***************************************************************************)
(* C2: under every interleaving of the listen and the cleanup thread the   *)
(* callbacks of every IP alternate discovered, lost, discovered, ...       *)
(***************************************************************************)
C2_Alternation == \A ip \in IPs : Alternates(CallbacksOf(ip))


\* both services of one application side by side, at one reading of the clock: their
\* start on ports that are free or held, the listen thread, the accept thread and the
\* handler of the first connection
SysNext ==
  \/ StartBegin \/ StartBind
  \/ LLoop \/ LRecv(IPs) \/ H96 \/ H98 \/ H99 \/ H102
  \/ NStartBegin \/ NStartBind
  \/ AccLoop \/ Accept
  \/ FirstConnect(PeerScripts)
  \/ \E c \in Conns : HLoop(c) \/ HRecvLen(c) \/ HRecvBody(c)

SysInit == DInit /\ NInit /\ codec = NoCodec
SysSpec == SysInit /\ [][SysNext]_vars

(***************************************************************************)
(* protocol.py used on its own: Message.to_bytes / Message.from_bytes      *)
(***************************************************************************)
\* the envelopes a caller can build: type a MessageType, string names and addresses,
\* payload None (the default) or a dict with string keys
Payloads ==
  { JNull, JObj(<<>>),
    JObj(<< <<"text", JStr("hi")>> >>),
    JObj(<< <<"filename", JStr("a.txt")>>, <<"filesize", JNum(3)>> >>),
    JObj(<< <<"data", JObj(<< <<"text", JStr("bye")>> >>)>>, <<"extra", JNull>> >>) }
Envelopes ==
  { Message(t, JStr(n), JStr(ip), p) :
      t \in MessageType, n \in {"alice", "bob"}, ip \in {"", "10.0.0.5"}, p \in Payloads }
\* the envelopes whose encodings are cut, damaged and stripped of fields
Samples ==
  { Message("DISCOVERY", JStr("alice"), JStr(""), JObj(<<>>)),
    Message("TEXT", JStr("bob"), JStr(""), JObj(<< <<"text", JStr("hi")>> >>)),
    Message("FILE_OFFER", JStr("bob"), JStr("10.0.0.5"),
            JObj(<< <<"filename", JStr("a.txt")>>, <<"filesize", JNum(3)>> >>)) }
\* asdict(self) with data['type'] = self.type.value (lines 31-33)
AsDict(msg) ==
  << <<"type", JStr(msg.type)>>, <<"sender_name", msg.sender_name>>,
     <<"sender_ip", msg.sender_ip>>, <<"payload", msg.payload>> >>
CodecIn(kind, field, data) == [NoCodec EXCEPT !.pc = "bytes", !.kind = kind, !.field = field,
                                              !.data = data]
\* the bytes from_bytes can be given, with how they were made
ByteInputs ==
  {CodecIn("valid", "", to_bytes(e)) : e \in Samples}
  \cup UNION {{CodecIn("truncated", "", SubSeq(to_bytes(e), 1, k)) :
                 k \in 0..(Len(to_bytes(e)) - 1)} : e \in Samples}
  \cup UNION {{CodecIn("badutf8", "", [to_bytes(e) EXCEPT ![k] = BadUtf8]) :
                 k \in 1..Len(to_bytes(e))} : e \in Samples}
  \cup UNION {{CodecIn("missing", f, Dumps(JObj(DictDel(AsDict(e), f)))) :
                 f \in MessageFields} : e \in Samples}
  \cup UNION {{CodecIn("badtype", "type", Dumps(JObj(DictPut(AsDict(e), "type", ty)))) :
                 ty \in {JStr("BOGUS"), JStr("text"), JStr(""), JNum(1), JNull}} : e \in Samples}
  \cup UNION {{CodecIn("malformed", "", to_bytes(e) \o <<RBrace>>),
               CodecIn("malformed", "", <<LBrace>> \o to_bytes(e)),
               CodecIn("malformed", "", SubSeq(to_bytes(e), 2, Len(to_bytes(e))))} :
               e \in Samples}
  \cup {CodecIn("extra", "extra", Dumps(JObj(DictPut(AsDict(e), "extra", JNull)))) :
          e \in Samples}
  \cup {CodecIn("notobject", "", Dumps(v)) : v \in {JStr("hi"), JNum(1), JNull}}

CodecInit ==
  codec \in ByteInputs \cup {[NoCodec EXCEPT !.pc = "env", !.kind = "envelope", !.env = e] :
                              e \in Envelopes}

\* Message.to_bytes
CEncode ==
  /\ codec.pc = "env"
  /\ codec' = [codec EXCEPT !.pc = "bytes", !.data = to_bytes(codec.env)]
  /\ UNCHANGED <<dvars, nvars>>

\* Message.from_bytes
CDecode ==
  /\ codec.pc = "bytes"
  /\ codec' = [codec EXCEPT !.pc = "done", !.r = from_bytes(codec.data)]
  /\ UNCHANGED <<dvars, nvars>>

CodecNext == CEncode \/ CDecode
\* both services as constructed and never started
CodecStart == DInit /\ udp_holder = "free" /\ NInit /\ tcp_holder = "free" /\ CodecInit
CodecSpec == CodecStart /\ [][CodecNext]_vars

(***************************************************************************)
(* Claims about the codec                                                  *)
(***************************************************************************)
\* C11: from_bytes fails for bytes that are not UTF-8, for cut or otherwise malformed
\* text, for a dict that lacks type, sender_name, sender_ip or payload and for a type
\* that is no MessageType; a Message it returns has a MessageType as its type.
C11_DecodeRejection ==
  codec.pc = "done" =>
    /\ codec.kind \in {"badutf8", "truncated", "malformed", "missing", "badtype"}
       => ~codec.r.ok
    /\ codec.r.ok => codec.r.msg.type \in MessageType

\* C12: decoding the encoding of an envelope returns the envelope, field for field.
C12_RoundTrip ==
  (codec.pc = "done" /\ codec.kind = "envelope")
  => codec.r.ok /\ codec.r.msg = codec.env
\* an envelope with a dict inside its payload has gone through to_bytes and from_bytes
C12_Witness ==
  /\ codec.pc = "done" /\ codec.kind = "envelope"
  /\ codec.env.type = "FILE_DATA"
  /\ codec.env.payload.k = "obj" /\ DictHas(codec.env.payload.o, "data")
  /\ codec.data = to_bytes(codec.env)

(***************************************************************************)
(* Claims about the Transport Service                                      *)
(***************************************************************************)
\* the envelopes on_message was called with for connection c, in the order of the calls
Delivered(c) ==
  LET own == SelectSeq(messages, LAMBDA m : m.conn = c)
  IN [i \in 1..Len(own) |-> own[i].msg]
IsPrefix(s, t) == Len(s) <= Len(t) /\ \A i \in 1..Len(s) : s[i] = t[i]

RECURSIVE WellFramed(_)
\* b is a run of whole frames: a 4-byte big-endian length and as many bytes after it
WellFramed(b) ==
  \/ Len(b) = 0
  \/ /\ Len(b) >= PREFIX_LEN
     /\ LET n == FromBytesBE(SubSeq(b, 1, PREFIX_LEN))
        IN Len(b) >= PREFIX_LEN + n /\ WellFramed(SubSeq(b, PREFIX_LEN + n + 1, Len(b)))
RECURSIVE Bodies(_)
Bodies(b) ==
  IF Len(b) = 0 THEN <<>>
  ELSE LET n == FromBytesBE(SubSeq(b, 1, PREFIX_LEN))
       IN <<SubSeq(b, PREFIX_LEN + 1, PREFIX_LEN + n)>>
          \o Bodies(SubSeq(b, PREFIX_LEN + n + 1, Len(b)))
\* b is two or more frames, each the encoding of an envelope that goes to on_message
ValidFrames(b) ==
  /\ WellFramed(b)
  /\ Len(Bodies(b)) >= 2
  /\ \A i \in 1..Len(Bodies(b)) :
       from_bytes(Bodies(b)[i]).ok /\ ~ToFileData(from_bytes(Bodies(b)[i]).msg)
\* the envelopes the peer of connection c sent, as the handler hands them on
Sent(c) ==
  [i \in 1..Len(Bodies(conns[c].wrote)) |->
     WithSenderIp(from_bytes(Bodies(conns[c].wrote)[i]).msg, conns[c].peer)]

\* C3: on a connection on which the peer wrote two or more valid frames and which it
\* then closed, whatever chunks recv returns, on_message is called with the envelopes
\* of the frames in the order sent, and with all of them once the handler has ended
\* (an on_message that raises aside).
C3_Framing ==
  \A c \in Conns :
    (ValidFrames(conns[c].wrote) /\ conns[c].fin = "close" /\ conns[c].err # "dispatch")
    => /\ IsPrefix(Delivered(c), Sent(c))
       /\ conns[c].h = "done" => Delivered(c) = Sent(c)

\* C4: while the receiver runs, every send_message call that reached it has a
\* connection of its own and has not raised, and once the handler of that connection
\* has ended on_message was called exactly once for it, with the text of the call.
C4_ConcurrentSends ==
  (napp = "up" /\ n_running) =>
    \A i \in Sends :
      (sends[i].target = MyIP /\ sends[i].heard) =>
        /\ sends[i].pc # "raised"
        /\ \A j \in Sends \ {i} : sends[j].conn # sends[i].conn
        /\ Len(Delivered(sends[i].conn)) <= 1
        /\ (conns[sends[i].conn].h = "done" /\ conns[sends[i].conn].err # "dispatch")
           => Delivered(sends[i].conn) = <<Text(PeerName, PeerIP, SendText(i))>>

\* C5: a send whose connect or sendall failed has logged the error and ended by
\* raising; a send that returned had no failure.
C5_Propagation ==
  \A i \in Sends :
    /\ sends[i].failed => sends[i].pc = "raised" /\ "send" \in nlog
    /\ sends[i].pc = "returned" => ~sends[i].failed
\* one call failed in connect, another in sendall on a connection the receiver closed
C5_Witness ==
  \E i, j \in Sends :
    /\ sends[i].failed /\ sends[i].conn = 0
    /\ sends[j].failed /\ sends[j].conn # 0 /\ conns[sends[j].conn].state = "closed"

C6_StaysUp ==
  (napp = "up" /\ tcp_holder = "free")
  => n_running /\ server_socket = "listening" /\ acc \in {"loop", "accept"}
C6_OnlyThatHandler ==
  \A c \in Conns :
    (conns[c].err = "" /\ conns'[c].err # "")
    => /\ conns'[c].state = "closed" /\ conns'[c].h = "done"
       /\ \A d \in Conns \ {c} : conns'[d] = conns[d]
       /\ UNCHANGED <<napp, n_running, server_socket, acc, backlog>>
\* C6: the step in which a handler fails (I/O, decode, file data or dispatch error)
\* closes its own connection and changes no other connection, nor running, the
\* listening socket, the accept thread or the backlog; the started service stays up.
C6_Isolation == [](C6_StaysUp) /\ [][C6_OnlyThatHandler]_vars
\* the handler of connection 1 failed in its first dispatch, and both frames of
\* connection 2 were delivered after that
C6_Witness ==
  /\ conns[1].err = "dispatch"
  /\ conns[2].err = "" /\ conns[2].h = "done"
  /\ Len(messages) = 3 /\ messages[1].conn = 1
  /\ messages[2].conn = 2 /\ messages[3].conn = 2

\* b is a whole length prefix and fewer bytes after it than it declares
ShortBody(b) ==
  /\ Len(b) >= PREFIX_LEN
  /\ Len(b) - PREFIX_LEN < FromBytesBE(SubSeq(b, 1, PREFIX_LEN))
\* C7: a connection on which the peer wrote a whole length prefix and less body than
\* it declares, and which it then closed, ends closed with no on_message call and no
\* error logged.
C7_ShortRead ==
  \A c \in Conns :
    (ShortBody(conns[c].wrote) /\ conns[c].fin = "close" /\ conns[c].h = "done")
    => /\ conns[c].state = "closed"
       /\ conns[c].err = ""
       /\ Delivered(c) = <<>>


(***************************************************************************)
(* Claims about both services                                              *)
(***************************************************************************)
C8_Transport ==
  \A i \in 1..Len(messages) :
    messages[i].msg.sender_ip = JStr(conns[messages[i].conn].peer)
C8_Presence ==
  /\ \A k \in DictKeys(peers) \cup DictKeys(peer_names) : k \in IPs
  /\ \A k \in DictKeys(peer_names) : DictGet(peer_names, k) = JStr(NameOf(k))
  /\ \A i \in 1..Len(callbacks) :
       /\ callbacks[i].ip \in IPs
       /\ callbacks[i].cb = "discovered" => callbacks[i].name = JStr(NameOf(callbacks[i].ip))
  /\ lst.pc \in {"h96", "h98", "h99", "h102"} => lst.ip \in IPs /\ lst.name = JStr(NameOf(lst.ip))
\* C8: every envelope on_message was called with carries the peer address of its
\* connection as sender_ip; every key of the peer table, of the name table and of a
\* callback is the source address of a datagram, with the name that source announced.
C8_SenderAddress == C8_Transport /\ C8_Presence
\* an envelope that was encoded with a forged sender_ip has been delivered, and a
\* host is in the peer table
C8_Witness ==
  /\ \E c \in Conns :
       /\ Len(Delivered(c)) > 0
       /\ from_bytes(Bodies(conns[c].wrote)[1]).msg.sender_ip = JStr("6.6.6.6")
  /\ DictKeys(peers) # {}

C9_PresenceDisabled ==
  "bind" \in log
  => /\ app = "up" /\ ~running
     /\ bcast.pc = "none" /\ lst.pc = "none" /\ cln.pc = "none"
     /\ callbacks = <<>> /\ peers = <<>>
C9_TransportDisabled ==
  "bind" \in nlog
  => /\ napp = "up" /\ ~n_running
     /\ acc = "none"
     /\ messages = <<>> /\ \A c \in Conns : conns[c].h = "none"
C9_OtherRuns ==
  /\ (app = "up" /\ udp_holder = "free") => running /\ lst.pc # "none"
  /\ (napp = "up" /\ tcp_holder = "free") => n_running /\ acc # "none"
C9_OtherUntouched ==
  /\ (app = "bind" /\ app' = "up") => UNCHANGED nvars
  /\ (napp = "bind" /\ napp' = "up") => UNCHANGED dvars
\* C9: a service whose bind failed has returned from start() with the error logged and
\* running false, none of its threads started and no callback called; its start
\* changes nothing of the other service, which runs whenever its own port was free.
C9_BindFailure ==
  /\ [](C9_PresenceDisabled /\ C9_TransportDisabled /\ C9_OtherRuns)
  /\ [][C9_OtherUntouched]_vars
\* the Presence Service is disabled and the Transport Service has delivered an envelope
C9_Witness == "bind" \in log /\ Len(messages) > 0

\* C10: a Presence Service started while another one holds the discovery port ends
\* start() with running false and the bind error logged.
C10_Contention ==
  (udp_holder = "presence" /\ app = "up") => ~running /\ "bind" \in log


(***************************************************************************)
(* The Presence Service under fair scheduling                              *)
(***************************************************************************)
\* the host whose heartbeats stop after the first reading of the clock
QuietIP == "10.0.0.5"
LiveLRecv == LRecv(IF now = 0 THEN IPs ELSE IPs \ {QuietIP})
\* time.sleep(5) returns at the horizon of the clock, which stands for every later
\* time: a sleep never outlasts it
CWakeLate ==
  /\ cln.pc = "sleep"
  /\ now = MaxTime
  /\ now < cln.wake
  /\ cln' = [pc |-> "scan", wake |-> 0, time |-> now, size |-> Len(peers), idx |-> 1,
             to_remove |-> <<>>]
  /\ UNCHANGED <<now, udp_holder, app, running, broadcast_socket, listen_socket, peers,
                 peer_names, bcast, lst, callbacks, log>>
  /\ UNCHANGED <<nvars, cvars>>

LiveListen == LLoop \/ LiveLRecv \/ H96 \/ H98 \/ H99 \/ H102
LiveCleanup == CLoop \/ CWake \/ CWakeLate \/ CScan \/ CDel \/ CDelName \/ CLost
LiveNext ==
  \/ Tick
  \/ StartBegin \/ StartBind
  \/ LLoop \/ LiveLRecv \/ H96 \/ H98 \/ H99 \/ H102
  \/ CLoop \/ CWake \/ CWakeLate \/ CScan \/ CDel \/ CDelName \/ CLost
\* the clock advances, and every thread that can take a step eventually takes one
LiveInit == Init /\ udp_holder = "free"
LiveSpec ==
  /\ LiveInit
  /\ [][LiveNext]_vars
  /\ WF_vars(Tick) /\ WF_vars(Start) /\ WF_vars(LiveListen) /\ WF_vars(LiveCleanup)

\* time.sleep(DISCOVERY_INTERVAL) returns at the horizon of the clock
BWakeLate ==
  /\ bcast.pc = "sleep"
  /\ now = MaxTime
  /\ now < bcast.wake
  /\ bcast' = [bcast EXCEPT !.pc = "loop", !.wake = 0]
  /\ UNCHANGED <<now, udp_holder, app, running, broadcast_socket, listen_socket, peers,
                 peer_names, lst, cln, callbacks, log>>
  /\ UNCHANGED <<nvars, cvars>>

\* start(), the three loops and stop(), with the heartbeats of one other host.  A
\* datagram need not arrive and a blocked recvfrom need not be woken by close():
\* neither LRecv nor LUnblock is a step the scheduler owes.
StopLRecv == LRecv({QuietIP})
StopBroadcast == BLoop \/ BSend \/ BWake \/ BWakeLate
StopListen == LLoop \/ H96 \/ H98 \/ H99 \/ H102
StopNext ==
  \/ Tick
  \/ StartBegin \/ StartBind
  \/ Stop45 \/ Stop47 \/ Stop49
  \/ BLoop \/ BSend \/ BWake \/ BWakeLate
  \/ LLoop \/ LUnblock \/ StopLRecv \/ H96 \/ H98 \/ H99 \/ H102
  \/ CLoop \/ CWake \/ CWakeLate \/ CScan \/ CDel \/ CDelName \/ CLost
StopSpec ==
  /\ LiveInit
  /\ [][StopNext]_vars
  /\ WF_vars(Tick) /\ WF_vars(Start) /\ WF_vars(Stop47 \/ Stop49)
  /\ WF_vars(StopBroadcast) /\ WF_vars(StopListen) /\ WF_vars(LiveCleanup)

(***************************************************************************)
(* Claims about the Presence Service under every interleaving              *)
(***************************************************************************)
\* C13: a step that takes a peer out of the peer table, and a step that calls
\* on_peer_lost for it, happens only when the last-seen time the table holds for that
\* peer at that moment is more than EXPIRY before now.
C13_Removal ==
  \A ip \in IPs :
    (DictHas(peers, ip) /\ ~DictHas(peers', ip)) => now - DictGet(peers, ip) > EXPIRY
C13_Report ==
  (Len(callbacks') = Len(callbacks) + 1 /\ callbacks'[Len(callbacks')].cb = "lost")
  => LET ip == callbacks'[Len(callbacks')].ip
     IN DictHas(peers, ip) => now - DictGet(peers, ip) > EXPIRY
C13_OnlyWhenStale == [][C13_Removal /\ C13_Report]_vars


LastIsLost(ip) ==
  /\ Len(CallbacksOf(ip)) > 0
  /\ CallbacksOf(ip)[Len(CallbacksOf(ip))].cb = "lost"
\* C14: under fair scheduling of a started service, a peer that is in the table after
\* its heartbeats have stopped is eventually out of the table with on_peer_lost called
\* for it, whatever heartbeats of other hosts arrive meanwhile.
C14_ExpiryLiveness ==
  (DictHas(peers, QuietIP) /\ now > 0 /\ lst.ip # QuietIP)
  ~> (~DictHas(peers, QuietIP) /\ LastIsLost(QuietIP))


C15_Closed ==
  app = "stopped" =>
    /\ ~running
    /\ broadcast_socket = "closed"
    /\ listen_socket = "closed"
C15_Terminates ==
  (app = "stopped") ~> (bcast.pc = "done" /\ lst.pc = "done" /\ cln.pc \in {"done", "dead"})
\* C15: once stop() has returned on a started service, running is false and both
\* sockets are closed, and the broadcast, listen and cleanup loops all eventually end,
\* a listen loop blocked in recvfrom included.
C15_Shutdown == []C15_Closed /\ C15_Terminates


\* peers that write one envelope, of any type, then close
TypeScripts ==
  { [peer |-> "10.0.0.5", fin |-> "close",
     stream |-> Frame(Message(t, JStr("bob"), JStr(""), JObj(<< <<"data", JStr("hi")>> >>)))] :
    t \in MessageType }
DispatchNext ==
  \/ NStartBegin \/ NStartBind
  \/ AccLoop \/ Accept
  \/ PeerConnect(TypeScripts)
  \/ \E c \in Conns : HLoop(c) \/ HRecvLen(c) \/ HRecvBody(c)
DispatchSpec == NetInit /\ [][DispatchNext]_vars

(***************************************************************************)
(* Claims about the Transport Service's shutdown and dispatch              *)
(***************************************************************************)
C16_Closed == napp = "stopped" => ~n_running /\ server_socket = "closed"
\* the step in which accept returns a connection and its handler thread is started
Accepts(c) == conns[c].h = "none" /\ conns'[c].h = "loop"
C16_NoAccept == \A c \in Conns : Accepts(c) => napp # "stopped"
\* C16: once stop() has returned, the listening socket is closed and no step accepts a
\* connection or starts a connection handler.
C16_Shutdown == [][C16_Closed /\ C16_NoAccept]_vars


\* the body that the handler of connection c completes in a step that leaves the body
\* loop of lines 60-65 with bytes received
LastChunk(c) == conns[c].msg_len - Len(conns[c].data)
BodyRead(c) == conns[c].data \o SubSeq(conns[c].stream, 1, LastChunk(c))
CompletesBody(c) ==
  /\ conns[c].h = "rbody" /\ conns'[c].h # "rbody"
  /\ Len(conns[c].stream) > 0
DecodesFileData(c) ==
  /\ CompletesBody(c)
  /\ from_bytes(BodyRead(c)).ok
  /\ ToFileData(from_bytes(BodyRead(c)).msg)
C17_NoEffect(c) ==
  /\ messages' = messages
  /\ conns'[c].err = "" /\ conns'[c].state = "open" /\ conns'[c].h = "loop"
  /\ conns'[c].stream = SubSeq(conns[c].stream, LastChunk(c) + 1, Len(conns[c].stream))
  /\ UNCHANGED <<napp, n_running, server_socket, acc, backlog, sends, nlog>>
\* C17: the step in which a handler decodes a FILE_DATA envelope, whatever its payload,
\* calls no on_message, changes nothing of the service, raises no error and leaves the
\* connection open at the next frame.
C17_FileDataIgnored == [][\A c \in Conns : DecodesFileData(c) => C17_NoEffect(c)]_vars


Decoded(c) == from_bytes(BodyRead(c)).msg
DecodesOk(c) == CompletesBody(c) /\ from_bytes(BodyRead(c)).ok
C18_OncePerFrame ==
  \A c \in Conns :
    DecodesOk(c) =>
      IF Decoded(c).type = "FILE_DATA"
      THEN messages' = messages
      ELSE messages' = Append(messages, [conn |-> c, msg |-> WithSenderIp(Decoded(c), conns[c].peer)])
C18_OnlyFrames ==
  messages' # messages => \E c \in Conns : DecodesOk(c) /\ Decoded(c).type # "FILE_DATA"
\* C18: while the service runs, the step that completes and decodes a frame calls
\* on_message exactly once with its envelope when the type is not FILE_DATA and not at
\* all when it is FILE_DATA, and on_message is called in no other step.
C18_Dispatch == [][n_running => C18_OncePerFrame /\ C18_OnlyFrames]_vars
\* one connection brought a FILE_DATA, which was decoded and not handed on, the other
\* a FILE_END, which was handed on
C18_Witness ==
  /\ conns[1].h = "done" /\ conns[2].h = "done"
  /\ conns[1].err = "" /\ conns[2].err = ""
  /\ from_bytes(Bodies(conns[1].wrote)[1]).msg.type = "FILE_DATA"
  /\ Len(Delivered(1)) = 0
  /\ from_bytes(Bodies(conns[2].wrote)[1]).msg.type = "FILE_END"
  /\ Len(Delivered(2)) = 1 /\ Delivered(2)[1].type = "FILE_END"


(***************************************************************************)
(* Claims about the outbound sends                                         *)
(***************************************************************************)
\* UNCONNECTED is "connect", CONNECTED "write", FRAME_WRITTEN "close", CLOSED "returned"
SendSteps ==
  { <<"idle", "connect">>, <<"connect", "write">>, <<"connect", "raised">>,
    <<"write", "close">>, <<"write", "raised">>, <<"close", "returned">> }
C19_Step ==
  \A i \in Sends :
    /\ sends'[i].pc # sends[i].pc => <<sends[i].pc, sends'[i].pc>> \in SendSteps
    /\ sends[i].conn # 0 => sends'[i].conn = sends[i].conn
    /\ (sends[i].conn = 0 /\ sends'[i].conn # 0)
       => /\ sends[i].pc = "connect"
          /\ conns[sends'[i].conn].state = "unused"
          /\ \A j \in Sends : sends[j].conn # sends'[i].conn
C19_Connection ==
  \A i \in Sends :
    /\ sends[i].pc \in {"idle", "connect"} => sends[i].conn = 0
    /\ sends[i].pc \in {"write", "close", "returned"} => sends[i].conn # 0
    /\ sends[i].conn # 0 =>
         LET conn == conns[sends[i].conn] IN
         /\ \A j \in Sends \ {i} : sends[j].conn # sends[i].conn
         /\ conn.peer = PeerIP
         /\ sends[i].pc \in {"write", "raised"} => conn.wrote = <<>> /\ conn.fin = "open"
         /\ sends[i].pc \in {"close", "returned"} =>
              /\ Len(conn.wrote) = PREFIX_LEN + Len(to_bytes(Text(PeerName, "", SendText(i))))
              /\ FromBytesBE(SubSeq(conn.wrote, 1, PREFIX_LEN)) = Len(conn.wrote) - PREFIX_LEN
              /\ SubSeq(conn.wrote, PREFIX_LEN + 1, Len(conn.wrote))
                   = to_bytes(Text(PeerName, "", SendText(i)))
         /\ sends[i].pc = "close" => conn.fin = "open"
         /\ sends[i].pc = "returned" => conn.fin = "close"
\* C19: every call moves only idle -> connect -> write -> close -> returned, or from
\* connect or write to raised, where it stays; it gets one connection, unused until
\* then and never shared with or handed to another call, on which it writes the 4-byte
\* big-endian length of its encoded envelope and that envelope, nothing else, and which
\* it closes when it returns.
C19_SendStateMachine == [](C19_Connection) /\ [][C19_Step]_vars
\* both calls have returned, each after writing its own frame on its own connection
C19_Witness ==
  /\ sends[1].pc = "returned" /\ sends[2].pc = "returned"
  /\ sends[1].conn # sends[2].conn
  /\ conns[sends[1].conn].wrote # conns[sends[2].conn].wrote
  /\ conns[sends[1].conn].fin = "close" /\ conns[sends[2].conn].fin = "close"


(***************************************************************************)
(* Claims about the listen loop                                            *)
(***************************************************************************)
\* recvfrom has returned a datagram and _handle_discovery is not entered for it: the
\* decoding failed (logged) or the type is not DISCOVERY
\* (the other step out of recvfrom is the OSError of a closed socket)
Drops ==
  /\ lst.pc = "recv"
  /\ lst'.pc \notin {"recv", "h96"}
  /\ ~(lst'.pc = "done" /\ listen_socket = "closed" /\ log' = log)
C20_Dropped ==
  Drops => /\ lst'.pc = "loop"
           /\ UNCHANGED <<peers, peer_names, callbacks, running, listen_socket>>
LoopEnds == lst.pc \notin {"none", "done"} /\ lst'.pc = "done"
\* the statement as made: a dropped datagram changes no table and calls nothing, the
\* loop goes on, and the loop ends only with the receive socket closed
C20_OnlyClosedSocket ==
  [][C20_Dropped /\ (LoopEnds => listen_socket = "closed")]_vars
\* C20: a datagram that fails to decode or is not a DISCOVERY leaves peers, peer_names
\* and the callbacks as they were and the loop goes on to the next datagram; the loop
\* ends only when running is false (line 68) or the receive socket is closed (line 83).
C20_DatagramIsolation ==
  [][C20_Dropped /\ (LoopEnds => ~running \/ listen_socket = "closed")]_vars
\* a datagram that does not decode has been dropped and logged, and the loop is
\* handling a heartbeat that came after it
C20_Witness ==
  /\ "parse" \in log
  /\ lst.pc = "h96"
  /\ peers = <<>> /\ callbacks = <<>>


(***************************************************************************)
(* Claims about the two maps of the Presence Service and about its end     *)
(***************************************************************************)
\* _handle_discovery is between its lines 95 and 102
Handling == lst.pc \in {"h96", "h98", "h99", "h102"}
\* the cleanup loop is between its lines 113 and 117
Removing == cln.pc \in {"del", "delname", "lost"}
\* C21: whenever neither _handle_discovery nor a removal of the cleanup loop is under
\* way, peers and peer_names have the same keys.
C21_SameKeys ==
  (~Handling /\ ~Removing) => DictKeys(peers) = DictKeys(peer_names)


\* C22: once stop() has returned, no step calls on_peer_discovered or on_peer_lost and
\* no step changes peers or peer_names.
C22_QuietAfterStop ==
  [][app = "stopped" => UNCHANGED <<peers, peer_names, callbacks>>]_vars

=============================================================================
